---- MODULE Spec2Model ----
(***************************************************************************)
(* pleme-health: builder -> immutable HealthRoutes snapshot -> liveness    *)
(* (/health) and readiness (/ready) handlers, and the HealthResponse       *)
(* aggregation (response.rs).                                              *)
(*                                                                         *)
(* Option<T> is modelled as a sequence of length <= 1 (<<>> is None).      *)
(* HashMap<String, T> is modelled as a function whose DOMAIN is the key    *)
(* set.  A HealthCheck (a boxed closure) is identified by the index of the *)
(* add_check call that passed it.  HealthResponse.timestamp is left out.   *)
(***************************************************************************)
EXTENDS Integers, Sequences, FiniteSets, TLC

\* ---- bounds ------------------------------------------------------------
MaxAdds == 3      \* builder add_check calls before build()
MaxReqs == 2      \* requests in flight at once
MaxCalls == 4     \* HealthResponse::add_check calls on one value (RespSpec)

Names == {"database", "cache"}
ServiceName == "orders"
Versions == {<<>>, <<"2.3.0">>}
Reqs == 1..MaxReqs

StatusOK == 200
StatusServiceUnavailable == 503

\* ---- response.rs: CheckResult ------------------------------------------
CheckResultHealthy ==
    [status |-> "Healthy", message |-> <<>>, duration_ms |-> <<>>]

CheckResultUnhealthy(message) ==
    [status |-> "Unhealthy", message |-> <<message>>, duration_ms |-> <<>>]

CheckResultUnknown(message) ==
    [status |-> "Unknown", message |-> <<message>>, duration_ms |-> <<>>]

WithDuration(result, d) == [result EXCEPT !.duration_ms = <<d>>]

\* the results a check may produce (checks.rs: a healthy round trip carries
\* its duration, a failure carries a message; custom checks return anything)
Outcomes ==
    { WithDuration(CheckResultHealthy, 5),
      CheckResultUnhealthy("timeout"),
      CheckResultUnknown("n/a") }

\* ---- HashMap helpers ---------------------------------------------------
EmptyMap == [k \in {} |-> 0]

MapInsert(m, k, v) ==
    [x \in (DOMAIN m) \cup {k} |-> IF x = k THEN v ELSE m[x]]

Perms(S) ==
    { p \in [1..Cardinality(S) -> S] :
        \A i, j \in 1..Cardinality(S) : p[i] = p[j] => i = j }

\* ---- response.rs: HealthResponse ---------------------------------------
HealthResponseNew_Unknown(service) ==
    [status |-> "Unknown", service |-> service,
     checks |-> EmptyMap, version |-> <<>>]

HealthResponseNew(service) ==
    [status |-> "Healthy", service |-> service,
     checks |-> EmptyMap, version |-> <<>>]

WithVersion(resp, version) == [resp EXCEPT !.version = <<version>>]

\* mutant: the aggregate follows the last merged result
AddCheck_LastWins(resp, name, result) ==
    [resp EXCEPT !.status = result.status,
                 !.checks = MapInsert(resp.checks, name, result)]

\* mutant: any non-Healthy result flips the aggregate
AddCheck_FlipOnNonHealthy(resp, name, result) ==
    [resp EXCEPT !.status = IF result.status # "Healthy"
                            THEN "Unhealthy" ELSE resp.status,
                 !.checks = MapInsert(resp.checks, name, result)]

\* mutant: only failures are recorded
AddCheck_DropHealthy(resp, name, result) ==
    IF result.status = "Unhealthy"
    THEN [resp EXCEPT !.status = "Unhealthy",
                      !.checks = MapInsert(resp.checks, name, result)]
    ELSE resp

AddCheck(resp, name, result) ==
    [resp EXCEPT !.status = IF result.status = "Unhealthy"
                            THEN "Unhealthy" ELSE resp.status,
                 !.checks = MapInsert(resp.checks, name, result)]

IsHealthy(resp) == resp.status = "Healthy"

\* ---- builder.rs --------------------------------------------------------
BuilderNew(service_name, version) ==
    [service_name |-> service_name, version |-> version, checks |-> EmptyMap]

\* mutant: entry().or_insert() - the first check registered for a name stays
BuilderInsert_KeepFirst(b, name, check) ==
    IF name \in DOMAIN b.checks THEN b
    ELSE [b EXCEPT !.checks = MapInsert(b.checks, name, check)]

BuilderInsert(b, name, check) ==
    [b EXCEPT !.checks = MapInsert(b.checks, name, check)]

BuilderBuild(b) ==
    [service_name |-> b.service_name, version |-> b.version,
     checks |-> b.checks]

\* ---- state -------------------------------------------------------------
VARIABLES
    builder,    \* HealthCheckBuilder
    created,    \* the checks passed to add_check, in call order:
                \* created[c] = [name, hangs] for check c
    built,      \* build() has run
    routes,     \* HealthRoutes snapshot (meaningful once built)
    iterOrder,  \* the order routes.checks.iter() yields the names
    req,        \* per request slot: the handler's locals and position
    hr,         \* a HealthResponse value under direct add_check calls
    hrCalls     \* number of add_check calls applied to hr

vars == <<builder, created, built, routes, iterOrder, req, hr, hrCalls>>

IdleReq ==
    [kind |-> "none", pc |-> "idle", idx |-> 0,
     resp |-> HealthResponseNew(""), code |-> 0, log |-> <<>>]

Init ==
    /\ \E v \in Versions : builder = BuilderNew(ServiceName, v)
    /\ created = <<>>
    /\ built = FALSE
    /\ routes = BuilderBuild(BuilderNew("", <<>>))
    /\ iterOrder = <<>>
    /\ req = [r \in Reqs |-> IdleReq]
    /\ hr = HealthResponseNew(ServiceName)
    /\ hrCalls = 0

\* ---- builder actions ---------------------------------------------------
BuilderAddCheck(name, hangs) ==
    /\ ~built
    /\ Len(created) < MaxAdds
    /\ created' = Append(created, [name |-> name, hangs |-> hangs])
    /\ builder' = BuilderInsert(builder, name, Len(created) + 1)
    /\ UNCHANGED <<built, routes, iterOrder, req, hr, hrCalls>>

Build ==
    /\ ~built
    /\ built' = TRUE
    /\ routes' = BuilderBuild(builder)
    /\ iterOrder' \in Perms(DOMAIN builder.checks)
    /\ UNCHANGED <<builder, created, req, hr, hrCalls>>

\* ---- routes.rs ---------------------------------------------------------
\* response construction shared by both handlers (routes.rs 42-46, 55-59)
BaseResponse(rt) ==
    IF rt.version # <<>>
    THEN WithVersion(HealthResponseNew(rt.service_name), rt.version[1])
    ELSE HealthResponseNew(rt.service_name)

StatusCodeFor(resp) ==
    IF IsHealthy(resp) THEN StatusOK ELSE StatusServiceUnavailable

\* a check's future resolves unless the check hangs; no timeout is applied
\* mutant: the await is abandoned after a timeout
CheckCanReturn_Timeout(c) == TRUE

CheckCanReturn(c) == ~created[c].hangs

\* run readiness_endpoint from the head of the for loop to the next await
\* (the check for the next name is invoked) or to the return
ReadinessResume(rt, order, st) ==
    IF st.idx <= Len(order)
    THEN [st EXCEPT !.pc = "await",
                    !.log = Append(st.log,
                              [name |-> order[st.idx],
                               check |-> rt.checks[order[st.idx]],
                               result |-> <<>>])]
    ELSE [st EXCEPT !.pc = "done", !.code = StatusCodeFor(st.resp)]

\* mutant: the liveness handler aggregates the registered checks as well
HealthRequest_RunsChecks(r) ==
    /\ built
    /\ req[r].pc = "idle"
    /\ req' = [req EXCEPT ![r] =
                  ReadinessResume(routes, iterOrder,
                      [kind |-> "health", pc |-> "run", idx |-> 1,
                       resp |-> BaseResponse(routes), code |-> 0,
                       log |-> <<>>])]
    /\ UNCHANGED <<builder, created, built, routes, iterOrder, hr, hrCalls>>

HealthRequest(r) ==
    /\ built
    /\ req[r].pc = "idle"
    /\ req' = [req EXCEPT ![r] =
                  [kind |-> "health", pc |-> "done", idx |-> 0,
                   resp |-> BaseResponse(routes), code |-> StatusOK,
                   log |-> <<>>]]
    /\ UNCHANGED <<builder, created, built, routes, iterOrder, hr, hrCalls>>

\* mutant: the response lives in state shared by the handlers, so a request
\* starts from what another request in progress has merged so far
ReadyRequest_SharedResp(r) ==
    /\ built
    /\ req[r].pc = "idle"
    /\ LET others == {s \in Reqs : s # r /\ req[s].kind = "ready"}
           start  == IF others = {} THEN BaseResponse(routes)
                     ELSE req[CHOOSE s \in others : TRUE].resp
       IN req' = [req EXCEPT ![r] =
                  ReadinessResume(routes, iterOrder,
                      [kind |-> "ready", pc |-> "run", idx |-> 1,
                       resp |-> start, code |-> 0, log |-> <<>>])]
    /\ UNCHANGED <<builder, created, built, routes, iterOrder, hr, hrCalls>>

ReadyRequest(r) ==
    /\ built
    /\ req[r].pc = "idle"
    /\ req' = [req EXCEPT ![r] =
                  ReadinessResume(routes, iterOrder,
                      [kind |-> "ready", pc |-> "run", idx |-> 1,
                       resp |-> BaseResponse(routes), code |-> 0,
                       log |-> <<>>])]
    /\ UNCHANGED <<builder, created, built, routes, iterOrder, hr, hrCalls>>

CheckReturn(r, result) ==
    /\ req[r].pc = "await"
    /\ LET st == req[r]
           n  == Len(st.log)
           e  == st.log[n]
       IN /\ CheckCanReturn(e.check)
          /\ req' = [req EXCEPT ![r] =
                 ReadinessResume(routes, iterOrder,
                     [st EXCEPT !.resp = AddCheck(st.resp, e.name, result),
                                !.log[n].result = <<result>>,
                                !.idx = st.idx + 1])]
    /\ UNCHANGED <<builder, created, built, routes, iterOrder, hr, hrCalls>>

Deliver(r) ==
    /\ req[r].pc = "done"
    /\ req' = [req EXCEPT ![r] = IdleReq]
    /\ UNCHANGED <<builder, created, built, routes, iterOrder, hr, hrCalls>>

Next ==
    \/ \E name \in Names, hangs \in BOOLEAN : BuilderAddCheck(name, hangs)
    \/ Build
    \/ \E r \in Reqs : HealthRequest(r)
    \/ \E r \in Reqs : ReadyRequest(r)
    \/ \E r \in Reqs, result \in Outcomes : CheckReturn(r, result)
    \/ \E r \in Reqs : Deliver(r)

Spec == Init /\ [][Next]_vars

\* the runtime keeps polling a handler whose awaited check has resolved
LiveSpec ==
    Init /\ [][Next]_vars
         /\ \A r \in Reqs : WF_vars(\E result \in Outcomes : CheckReturn(r, result))

\* ---- HealthResponse under direct use of its public methods -------------
RespAddCheck(name, result) ==
    /\ hrCalls < MaxCalls
    /\ hr' = AddCheck(hr, name, result)
    /\ hrCalls' = hrCalls + 1
    /\ UNCHANGED <<builder, created, built, routes, iterOrder, req>>

RespNext == \E name \in Names, result \in Outcomes : RespAddCheck(name, result)

RespSpec == Init /\ [][RespNext]_vars

\* ---- the for loop of readiness_endpoint run without suspension ---------
RECURSIVE MergeAll(_, _, _)
MergeAll(resp, order, results) ==
    IF order = <<>> THEN resp
    ELSE MergeAll(AddCheck(resp, Head(order), results[Head(order)]),
                  Tail(order), results)

\* ---- vocabulary of the properties --------------------------------------
ReadyDone(r) == req[r].kind = "ready" /\ req[r].pc = "done"
HealthDone(r) == req[r].kind = "health" /\ req[r].pc = "done"

\* log entries of request r whose check has returned
Returned(r) == {i \in 1..Len(req[r].log) : req[r].log[i].result # <<>>}

\* the statuses the checks returned to request r
ReturnedStatuses(r) == {req[r].log[i].result[1].status : i \in Returned(r)}

\* name -> result returned to request r by the check invoked for that name
ResultMap(r) ==
    [n \in {req[r].log[i].name : i \in Returned(r)} |->
        req[r].log[CHOOSE i \in Returned(r) : req[r].log[i].name = n].result[1]]

RegisteredNames == {created[c].name : c \in 1..Len(created)}

\* the check passed in the last add_check call for name n
LastAdded(n) ==
    CHOOSE c \in 1..Len(created) :
        /\ created[c].name = n
        /\ \A d \in 1..Len(created) : created[d].name = n => d <= c

NoRegisteredCheckHangs ==
    \A n \in DOMAIN routes.checks : ~created[routes.checks[n]].hangs

\* ---- C1 ----------------------------------------------------------------
\* C1: a completed readiness response in which at least one check returned
\* Unhealthy has aggregate status Unhealthy and status code 503, whatever
\* the other results and the iteration order.
C1_UnhealthyGives503 ==
    \A r \in Reqs :
        (ReadyDone(r) /\ "Unhealthy" \in ReturnedStatuses(r))
            => /\ req[r].resp.status = "Unhealthy"
               /\ req[r].code = StatusServiceUnavailable

\* an Unhealthy result merged first, a Healthy and an Unknown one seen later
C1_Witness ==
    \E r, s \in Reqs :
        /\ ReadyDone(r) /\ Len(req[r].log) = 2
        /\ req[r].log[1].result[1].status = "Unhealthy"
        /\ req[r].log[2].result[1].status = "Healthy"
        /\ ReadyDone(s)
        /\ req[s].log[1].result[1].status = "Unhealthy"
        /\ req[s].log[2].result[1].status = "Unknown"

\* ---- C2 ----------------------------------------------------------------
\* C2: a completed readiness response in which every check returned Healthy
\* (also when there is no check at all) has aggregate status Healthy and
\* status code 200; with zero registered checks its checks mapping is empty.
C2_AllHealthyGives200 ==
    \A r \in Reqs :
        (ReadyDone(r) /\ ReturnedStatuses(r) \subseteq {"Healthy"})
            => /\ req[r].resp.status = "Healthy"
               /\ req[r].code = StatusOK
               /\ (DOMAIN routes.checks = {} => req[r].resp.checks = EmptyMap)

C2_Witness ==
    \E r \in Reqs :
        /\ ReadyDone(r) /\ Len(req[r].log) = 2
        /\ ReturnedStatuses(r) = {"Healthy"}
        /\ req[r].code = StatusOK

\* ---- C3 ----------------------------------------------------------------
\* C3: the liveness handler invokes no check and its response is always
\* 200 / Healthy / empty checks with service and version of the snapshot,
\* whatever the registered checks would return.
C3_LivenessAlways200 ==
    \A r \in Reqs :
        req[r].kind = "health"
            => /\ req[r].log = <<>>
               /\ req[r].pc = "done"
               /\ req[r].code = StatusOK
               /\ req[r].resp.status = "Healthy"
               /\ req[r].resp.checks = EmptyMap
               /\ req[r].resp.service = routes.service_name
               /\ req[r].resp.version = routes.version

\* liveness answered while the same snapshot's checks all return Unhealthy
C3_Witness ==
    \E r, s \in Reqs :
        /\ HealthDone(r)
        /\ req[r].resp.version # <<>>
        /\ ReadyDone(s) /\ Len(req[s].log) = 2
        /\ ReturnedStatuses(s) = {"Unhealthy"}

\* ---- C4 ----------------------------------------------------------------
\* C4: after build() the snapshot maps each registered name to the check of
\* the last add_check call for that name; a readiness request invokes only
\* that check for the name and reports its result.
C4_LastWriteWins ==
    built =>
        /\ DOMAIN routes.checks = RegisteredNames
        /\ \A n \in RegisteredNames : routes.checks[n] = LastAdded(n)
        /\ \A r \in Reqs : \A i \in 1..Len(req[r].log) :
              /\ req[r].log[i].check = LastAdded(req[r].log[i].name)
              /\ i \in Returned(r) =>
                    req[r].resp.checks[req[r].log[i].name]
                        = req[r].log[i].result[1]

\* a name registered twice, and a readiness request that has run its check
C4_Witness ==
    \E r \in Reqs, c, d \in 1..Len(created) :
        /\ c < d /\ created[c].name = created[d].name
        /\ ReadyDone(r)
        /\ \E i \in Returned(r) : req[r].log[i].name = created[c].name

\* ---- C5 ----------------------------------------------------------------
\* C5: the checks mapping of a completed readiness response has one entry
\* per distinct registered name, each holding the result that name's check
\* returned in this request.
C5_OneEntryPerName ==
    \A r \in Reqs :
        ReadyDone(r)
            => /\ Cardinality(DOMAIN req[r].resp.checks)
                    = Cardinality(RegisteredNames)
               /\ DOMAIN req[r].resp.checks = RegisteredNames
               /\ req[r].resp.checks = ResultMap(r)

\* three add_check calls over two names, then a completed readiness request
C5_Witness ==
    \E r \in Reqs :
        /\ ReadyDone(r)
        /\ Len(created) = 3
        /\ Cardinality(RegisteredNames) = 2
        /\ "Healthy" \in ReturnedStatuses(r)

\* ---- C6 ----------------------------------------------------------------
\* C6: in every HealthResponse value, status is Unhealthy exactly when some
\* entry of its checks mapping is Unhealthy.
StatusIffUnhealthyEntry(resp) ==
    (resp.status = "Unhealthy")
        <=> (\E n \in DOMAIN resp.checks : resp.checks[n].status = "Unhealthy")

C6_StatusIffUnhealthyEntry ==
    /\ StatusIffUnhealthyEntry(hr)
    /\ \A r \in Reqs : StatusIffUnhealthyEntry(req[r].resp)

C8_OrderIndependent ==
    \A r \in Reqs :
        ReadyDone(r) =>
            \A order \in Perms(DOMAIN routes.checks) :
                LET merged == MergeAll(BaseResponse(routes), order, ResultMap(r))
                IN /\ merged = req[r].resp
                   /\ StatusCodeFor(merged) = req[r].code

\* the failing check was iterated first and a passing one after it
C8_Witness ==
    \E r \in Reqs :
        /\ ReadyDone(r) /\ Len(req[r].log) = 2
        /\ req[r].log[1].result[1].status = "Unhealthy"
        /\ req[r].log[2].result[1].status # "Unhealthy"
        /\ iterOrder = <<"cache", "database">>

\* ---- C9 ----------------------------------------------------------------
\* C9: requests on one snapshot do not influence each other: no request
\* step changes the snapshot or another request's response, and a readiness
\* response is made of the snapshot's identity and of the results returned
\* to that same request only.
OwnResultsOnly(r) ==
    /\ req[r].resp.service = routes.service_name
    /\ req[r].resp.version = routes.version
    /\ req[r].resp.checks = ResultMap(r)
    /\ (req[r].resp.status = "Unhealthy")
           <=> ("Unhealthy" \in ReturnedStatuses(r))
    /\ req[r].resp.status \in {"Healthy", "Unhealthy"}

C9_RequestsIsolated ==
    /\ [][built => /\ routes' = routes
                   /\ iterOrder' = iterOrder
                   /\ created' = created
                   /\ \A r, s \in Reqs :
                         (r # s /\ req[r]' # req[r]) => req[s]' = req[s]]_vars
    /\ [](\A r \in Reqs : req[r].kind = "ready" => OwnResultsOnly(r))

\* two readiness requests of one snapshot completed with different results
C9_Witness ==
    \E r, s \in Reqs :
        /\ ReadyDone(r) /\ ReadyDone(s)
        /\ Len(req[r].log) = 2
        /\ ReturnedStatuses(r) = {"Unhealthy"}
        /\ ReturnedStatuses(s) = {"Healthy"}

\* ---- C10 ---------------------------------------------------------------
\* C10: a readiness request whose registered checks all return eventually
\* completes; when a registered check never returns, no readiness request
\* ever completes.
C10_CompletesIffChecksReturn ==
    /\ \A r \in Reqs :
          (req[r].kind = "ready" /\ req[r].pc = "await" /\ NoRegisteredCheckHangs)
              ~> (req[r].pc = "done")
    /\ [](\A r \in Reqs : ReadyDone(r) => NoRegisteredCheckHangs)

\* a request stuck on a hanging check after another check was merged
C10_Witness ==
    \E r \in Reqs :
        /\ req[r].kind = "ready" /\ req[r].pc = "await"
        /\ Len(req[r].log) = 2
        /\ created[req[r].log[2].check].hangs
        /\ ~created[req[r].log[1].check].hangs
====
